---- MODULE Spec2Model ----
(***************************************************************************)
(* A model of the first-fit heap allocator of main.c: the arena `memspace` *)
(* of 4-byte words, each of which can be read as a packed header           *)
(* {w:30, alloced:1, reserved:1}, and the operations alloc (with           *)
(* findBlock_ and mkalloc) and freealloc.                                  *)
(*                                                                         *)
(* Addresses are word offsets from memspace.  A pointer is NULL or a word  *)
(* offset; the header of pointer p is the word p - 1.                      *)
(***************************************************************************)
EXTENDS Integers, Sequences, FiniteSets, TLC

\* ---------------------------------------------------------------- bounds
\* The build-time capacity Maxwords is explored for every value in
\* MinCap..MaxCap, and for the capacity of the worked scenario (64 words).
MinCap == 3
MaxCap == 5
\* At the scenario capacity the run is a recorded trace of at most MaxTrace calls.
MaxTrace == 4
\* Callers' writes into their blocks are explored at capacities up to MaxWriteCap.
MaxWriteCap == 4
\* Calls that run step by step are explored at capacities up to MaxStepCap.
MaxStepCap == 4

SmallCaps == MinCap..MaxCap
ScenarioCaps == {64}
Capacities == SmallCaps \cup ScenarioCaps

\* ------------------------------------------------------------- constants
NULL == -1
ErrNoMem == 1

\* int32 (unsigned int): a 32-bit value kept as two 16-bit halves, so that the
\* wrap-around of 32-bit arithmetic is computed and not assumed away.
Half == 65536
U32(n) == [hi |-> (n \div Half) % Half, lo |-> n % Half]
U32Add(a, k) ==
    LET s == a.lo + k
    IN  [hi |-> (a.hi + (s \div Half)) % Half, lo |-> s % Half]
\* unsigned division by 4; the quotient is below 2^30
U32Div4(a) == a.hi * (Half \div 4) + (a.lo \div 4)
\* the mathematical ceil(a / 4), without wrap-around (at most 2^30)
CeilDiv4(a) == a.hi * (Half \div 4) + ((a.lo + 3) \div 4)

\* word w : 30 -- a store to the size field keeps the low 30 bits
Bits30(x) == x % 1073741824

VARIABLES
    Maxwords,   \* the capacity in words (a build-time constant of the program)
    memspace,   \* the arena: Maxwords + 1 words (heap.asm reserves Heapsize words)
    errno,      \* the C errno, set by alloc on failure
    last,       \* the last call: its arguments, what it found and what it returned
    allocs,     \* data-word counts of the successful allocs so far, while no release succeeded
    released,   \* TRUE once a freealloc call has freed a block
    live,       \* the pointers alloc returned that no freealloc call has freed since
    hist,       \* at the scenario capacity: the calls made so far
    serialized, \* TRUE when the callers make one call at a time, as main() does
    call,       \* per caller: where its alloc call stands when alloc runs step by step
    dump        \* where a print_memory_layout call stands, and what it has printed

vars == <<Maxwords, memspace, errno, last, allocs, released, live, hist,
          serialized, call, dump>>

Heapsize(cap) == cap + 1
ZeroHeader == [w |-> 0, alloced |-> FALSE]

\* ------------------------------------------------------------ findBlock_
\* Mutant of findBlock_: a fitting block is passed over when a later block
\* fits as well.
RECURSIVE findBlock_PrefersLater(_, _, _, _, _)
findBlock_PrefersLater(cap, m, hdr, words_to_alloc, n) ==
    IF n >= cap - 2 THEN NULL
    ELSE LET total_required_size == words_to_alloc + 1
             later == findBlock_PrefersLater(cap, m, hdr + m[hdr].w, words_to_alloc, n + m[hdr].w)
         IN  IF ~m[hdr].alloced /\ m[hdr].w >= total_required_size /\ later = NULL
             THEN hdr
             ELSE later

\* Mutant of findBlock_: the alloced flag of a large enough block is not looked at.
RECURSIVE findBlock_IgnoresAlloced(_, _, _, _, _)
findBlock_IgnoresAlloced(cap, m, hdr, words_to_alloc, n) ==
    IF n >= cap - 2 THEN NULL
    ELSE LET total_required_size == words_to_alloc + 1
         IN  IF m[hdr].w >= total_required_size
             THEN hdr
             ELSE findBlock_IgnoresAlloced(cap, m, hdr + m[hdr].w, words_to_alloc, n + m[hdr].w)

\* The recursive first-fit search; hdr and n advance together from memspace.
\* The result is the offset of the header found, or NULL.
RECURSIVE findBlock_(_, _, _, _, _)
findBlock_(cap, m, hdr, words_to_alloc, n) ==
    IF n >= cap - 2 THEN NULL
    ELSE LET total_required_size == words_to_alloc + 1
         IN  IF ~m[hdr].alloced /\ m[hdr].w >= total_required_size
             THEN hdr
             ELSE findBlock_(cap, m, hdr + m[hdr].w, words_to_alloc, n + m[hdr].w)

findBlock(cap, m, words_to_alloc, start_offset) ==
    findBlock_(cap, m, 0, words_to_alloc, start_offset)

\* --------------------------------------------------------------- mkalloc
\* Mutant of SplitCondition: splits already when one word would remain.
SplitCondition_AtLeastOne(original_size, total_required_size) ==
    \/ original_size < total_required_size
    \/ original_size - total_required_size >= 1

\* Mutant of SplitCondition: splits whenever the block is large enough, also
\* with a remainder of 0 or 1 words.
SplitCondition_NoThreshold(original_size, total_required_size) ==
    \/ original_size < total_required_size
    \/ original_size - total_required_size >= 0

\* Unsigned: original_size - total_required_size wraps to a huge value when
\* original_size is the smaller one, and the comparison with 2 is then true.
SplitCondition(original_size, total_required_size) ==
    \/ original_size < total_required_size
    \/ original_size - total_required_size >= 2

\* Mutant of mkalloc: the remainder's size forgets the header word of the
\* allocated block (original_size - words_to_alloc).
mkalloc_RemainderOffByOne(m, words_to_alloc, hdr) ==
    LET total_required_size == words_to_alloc + 1
        original_size == m[hdr].w
        split == SplitCondition(original_size, total_required_size)
        next_hdr == hdr + total_required_size
        m1 == IF split
              THEN [m EXCEPT ![next_hdr] = [w |-> Bits30(original_size - words_to_alloc),
                                            alloced |-> FALSE],
                             ![hdr].w = Bits30(total_required_size)]
              ELSE m
    IN  [mem |-> [m1 EXCEPT ![hdr].alloced = TRUE], ptr |-> hdr + 1]

\* Mutant of mkalloc: never splits, the whole block found is handed out.
mkalloc_NoSplit(m, words_to_alloc, hdr) ==
    [mem |-> [m EXCEPT ![hdr].alloced = TRUE], ptr |-> hdr + 1]

\* Mutant of mkalloc: the remainder header is written one word too low.
mkalloc_RemainderMisplaced(m, words_to_alloc, hdr) ==
    LET total_required_size == words_to_alloc + 1
        original_size == m[hdr].w
        split == SplitCondition(original_size, total_required_size)
        next_hdr == hdr + words_to_alloc
        m1 == IF split
              THEN [m EXCEPT ![next_hdr] = [w |-> Bits30(original_size - total_required_size),
                                            alloced |-> FALSE],
                             ![hdr].w = Bits30(total_required_size)]
              ELSE m
    IN  [mem |-> [m1 EXCEPT ![hdr].alloced = TRUE], ptr |-> hdr + 1]

mkalloc(m, words_to_alloc, hdr) ==
    LET total_required_size == words_to_alloc + 1
        original_size == m[hdr].w
        split == SplitCondition(original_size, total_required_size)
        next_hdr == hdr + total_required_size
        m1 == IF split
              THEN [m EXCEPT ![next_hdr] = [w |-> Bits30(original_size - total_required_size),
                                            alloced |-> FALSE],
                             ![hdr].w = Bits30(total_required_size)]
              ELSE m
    IN  [mem |-> [m1 EXCEPT ![hdr].alloced = TRUE], ptr |-> hdr + 1]

\* ----------------------------------------------------------------- alloc
BytesToWords(bytes) == U32Div4(U32Add(bytes, 3))

\* Mutant of alloc: the first call writes the initial header before it
\* compares the request with the capacity.
alloc_InitBeforeCheck(cap, m, bytes) ==
    LET words == BytesToWords(bytes)
        first == m[0].w = 0
        toobig == first /\ words + 1 > cap
        m0 == IF first
              THEN [m EXCEPT ![0] = [w |-> Bits30(cap), alloced |-> FALSE]]
              ELSE m
        found == IF toobig THEN NULL ELSE findBlock(cap, m0, words, 0)
    IN  IF found = NULL
        THEN [mem |-> m0, ptr |-> NULL, err |-> TRUE, words |-> words, hdr |-> NULL, size |-> 0]
        ELSE [mem |-> mkalloc(m0, words, found).mem, ptr |-> mkalloc(m0, words, found).ptr,
              err |-> FALSE, words |-> words, hdr |-> found, size |-> m0[found].w]

\* Mutant of alloc: the arena is initialized again whenever the first block
\* is not Allocated.
alloc_ReinitWhenFirstFree(cap, m, bytes) ==
    LET words == BytesToWords(bytes)
        first == m[0].w = 0 \/ ~m[0].alloced
        toobig == first /\ words + 1 > cap
        m0 == IF first /\ ~toobig
              THEN [m EXCEPT ![0] = [w |-> Bits30(cap), alloced |-> FALSE]]
              ELSE m
        found == IF toobig THEN NULL ELSE findBlock(cap, m0, words, 0)
    IN  IF toobig
        THEN [mem |-> m, ptr |-> NULL, err |-> TRUE, words |-> words, hdr |-> NULL, size |-> 0]
        ELSE IF found = NULL
        THEN [mem |-> m0, ptr |-> NULL, err |-> TRUE, words |-> words, hdr |-> NULL, size |-> 0]
        ELSE [mem |-> mkalloc(m0, words, found).mem, ptr |-> mkalloc(m0, words, found).ptr,
              err |-> FALSE, words |-> words, hdr |-> found, size |-> m0[found].w]

alloc(cap, m, bytes) ==
    LET words == BytesToWords(bytes)
        first == m[0].w = 0
        toobig == first /\ words + 1 > cap
        m0 == IF first /\ ~toobig
              THEN [m EXCEPT ![0] = [w |-> Bits30(cap), alloced |-> FALSE]]
              ELSE m
        found == IF toobig THEN NULL ELSE findBlock(cap, m0, words, 0)
    IN  IF toobig
        THEN [mem |-> m, ptr |-> NULL, err |-> TRUE, words |-> words, hdr |-> NULL, size |-> 0]
        ELSE IF found = NULL
        THEN [mem |-> m0, ptr |-> NULL, err |-> TRUE, words |-> words, hdr |-> NULL, size |-> 0]
        ELSE [mem |-> mkalloc(m0, words, found).mem, ptr |-> mkalloc(m0, words, found).ptr,
              err |-> FALSE, words |-> words, hdr |-> found, size |-> m0[found].w]

\* ------------------------------------------------------------- freealloc
\* res names the branch taken: the early returns, or "Ok" when the block is freed.
\* Mutant of Coalesce: no coalescing at all.
Coalesce_Never(cap, m, hdr) == m

\* Mutant of Coalesce: the successor is absorbed without looking at its
\* alloced flag.
Coalesce_IgnoresAlloced(cap, m, hdr) ==
    LET next_hdr_offset == hdr + m[hdr].w
    IN  IF next_hdr_offset < cap /\ m[next_hdr_offset].w > 0
        THEN [m EXCEPT ![hdr].w = Bits30(m[hdr].w + m[next_hdr_offset].w)]
        ELSE m

\* Mutant of Coalesce: absorbing goes on while a Free block follows.
RECURSIVE Coalesce_Repeated(_, _, _)
Coalesce_Repeated(cap, m, hdr) ==
    LET next_hdr_offset == hdr + m[hdr].w
    IN  IF next_hdr_offset < cap
           /\ ~m[next_hdr_offset].alloced
           /\ m[next_hdr_offset].w > 0
        THEN Coalesce_Repeated(cap,
                 [m EXCEPT ![hdr].w = Bits30(m[hdr].w + m[next_hdr_offset].w)], hdr)
        ELSE m

Coalesce(cap, m, hdr) ==
    LET next_hdr_offset == hdr + m[hdr].w
    IN  IF next_hdr_offset < cap
           /\ ~m[next_hdr_offset].alloced
           /\ m[next_hdr_offset].w > 0
        THEN [m EXCEPT ![hdr].w = Bits30(m[hdr].w + m[next_hdr_offset].w)]
        ELSE m

\* Mutant of freealloc: the check of the alloced flag is missing.
freealloc_NoAllocedCheck(cap, m, ptr) ==
    LET hdr == ptr - 1
    IN  IF ptr = NULL THEN [mem |-> m, res |-> "Noop"]
        ELSE IF hdr < 0 \/ hdr >= cap THEN [mem |-> m, res |-> "InvalidPointer"]
        ELSE IF m[hdr].w = 0 THEN [mem |-> m, res |-> "CorruptionDetected"]
        ELSE [mem |-> Coalesce(cap, [m EXCEPT ![hdr].alloced = FALSE], hdr), res |-> "Ok"]

\* Mutant of freealloc: the zero-size check comes before the alloced check.
freealloc_SizeCheckFirst(cap, m, ptr) ==
    LET hdr == ptr - 1
    IN  IF ptr = NULL THEN [mem |-> m, res |-> "Noop"]
        ELSE IF hdr < 0 \/ hdr >= cap THEN [mem |-> m, res |-> "InvalidPointer"]
        ELSE IF m[hdr].w = 0 THEN [mem |-> m, res |-> "CorruptionDetected"]
        ELSE IF ~m[hdr].alloced THEN [mem |-> m, res |-> "DoubleFree"]
        ELSE [mem |-> Coalesce(cap, [m EXCEPT ![hdr].alloced = FALSE], hdr), res |-> "Ok"]

\* Mutant of freealloc: the freed block is also merged into a Free block that
\* ends where it starts.
freealloc_CoalesceBackward(cap, m, ptr) ==
    LET hdr == ptr - 1
        m1 == Coalesce(cap, [m EXCEPT ![hdr].alloced = FALSE], hdr)
        before == {o \in 0..(cap - 1) : o < hdr /\ ~m[o].alloced /\ m[o].w > 0
                                        /\ o + m[o].w = hdr}
        prev == CHOOSE o \in before : \A o2 \in before : o2 <= o
    IN  IF ptr = NULL THEN [mem |-> m, res |-> "Noop"]
        ELSE IF hdr < 0 \/ hdr >= cap THEN [mem |-> m, res |-> "InvalidPointer"]
        ELSE IF ~m[hdr].alloced THEN [mem |-> m, res |-> "DoubleFree"]
        ELSE IF m[hdr].w = 0 THEN [mem |-> m, res |-> "CorruptionDetected"]
        ELSE IF before = {} THEN [mem |-> m1, res |-> "Ok"]
        ELSE [mem |-> [m1 EXCEPT ![prev].w = Bits30(m[prev].w + m1[hdr].w)], res |-> "Ok"]

freealloc(cap, m, ptr) ==
    LET hdr == ptr - 1
    IN  IF ptr = NULL THEN [mem |-> m, res |-> "Noop"]
        ELSE IF hdr < 0 \/ hdr >= cap THEN [mem |-> m, res |-> "InvalidPointer"]
        ELSE IF ~m[hdr].alloced THEN [mem |-> m, res |-> "DoubleFree"]
        ELSE IF m[hdr].w = 0 THEN [mem |-> m, res |-> "CorruptionDetected"]
        ELSE [mem |-> Coalesce(cap, [m EXCEPT ![hdr].alloced = FALSE], hdr), res |-> "Ok"]

\* --------------------------------------------------- print_memory_layout
\* The entries the diagnostic prints, in order: (offset, size, alloced).
RECURSIVE LayoutFrom(_, _, _)
LayoutFrom(cap, m, offset) ==
    IF offset >= cap THEN << >>
    ELSE LET e == [offset |-> offset, size |-> m[offset].w, alloced |-> m[offset].alloced]
         IN  IF m[offset].w = 0 THEN <<e>>
             ELSE <<e>> \o LayoutFrom(cap, m, offset + m[offset].w)

print_memory_layout(cap, m) == LayoutFrom(cap, m, 0)

\* ---------------------------------------------------------------- inputs
\* Byte counts: every multiple of 4 up to MaxCap + 1 data words, two byte
\* counts that round up (1 and 5), and the byte counts 2^32 - 4, 2^32 - 3 and
\* 2^32 - 1, around the point where bytes + 3 no longer fits 32 bits.
MaxReqWords == MaxCap + 1
SmallBytes == {4 * w : w \in 0..MaxReqWords} \cup {4 * w - 3 : w \in 1..2}
HugeBytes == {[hi |-> Half - 1, lo |-> Half - k] : k \in {1, 3, 4}}
ByteCounts == {U32(b) : b \in SmallBytes} \cup HugeBytes
ScenarioBytes == {U32(0), U32(8), U32(16), U32(4 * 63), U32(4 * 64)}

Tracing == Maxwords \in ScenarioCaps
Returned == {hist[i].ret : i \in 1..Len(hist)} \ {NULL}
BytesIn == IF Tracing THEN ScenarioBytes ELSE ByteCounts
PtrsIn == IF Tracing THEN Returned \cup {NULL} ELSE {NULL} \cup (0..(Maxwords + 1))

\* ------------------------------------------------------------ the machine
NoCall == [op |-> "none", bytes |-> U32(0), words |-> 0, ptr |-> NULL, res |-> "none",
           hdr |-> NULL, size |-> 0, preFree |-> 0]

\* The callers: main() is one; Procs has a second one for calls that overlap.
Procs == {1, 2}
\* No alloc call of this caller is running.
IdleCall == [at |-> "idle", bytes |-> U32(0), words |-> 0, hdr |-> NULL, n |-> 0,
             preFree |-> 0]
IdleDump == [at |-> "idle", offset |-> 0, out |-> << >>]

InitArena ==
    /\ Maxwords \in Capacities
    /\ memspace = [i \in 0..(Heapsize(Maxwords) - 1) |-> ZeroHeader]
    /\ errno = 0
    /\ last = NoCall
    /\ allocs = << >>
    /\ released = FALSE
    /\ live = {}
    /\ hist = << >>
    /\ call = [p \in Procs |-> IdleCall]
    /\ dump = IdleDump

Init ==
    /\ InitArena
    /\ serialized = TRUE

CanCall == Tracing => Len(hist) < MaxTrace

Blocks(m) == print_memory_layout(Maxwords, m)
RECURSIVE SumFree(_)
SumFree(s) ==
    IF s = << >> THEN 0
    ELSE (IF Head(s).alloced THEN 0 ELSE Head(s).size) + SumFree(Tail(s))
TotalFree(m) == SumFree(Blocks(m))

CallAlloc(bytes, ret) == [op |-> "alloc", bytes |-> bytes, ptr |-> NULL, ret |-> ret]
CallFree(ptr) == [op |-> "free", bytes |-> U32(0), ptr |-> ptr, ret |-> NULL]

Alloc(bytes) ==
    LET r == alloc(Maxwords, memspace, bytes)
    IN  /\ CanCall
        /\ memspace' = r.mem
        /\ errno' = IF r.err THEN ErrNoMem ELSE errno
        /\ last' = [op |-> "alloc", bytes |-> bytes, words |-> r.words, ptr |-> r.ptr,
                    res |-> IF r.err THEN "OutOfMemory" ELSE "Ok",
                    hdr |-> r.hdr, size |-> r.size, preFree |-> TotalFree(memspace)]
        /\ allocs' = IF ~r.err /\ ~released THEN Append(allocs, r.words) ELSE allocs
        /\ live' = IF r.err THEN live ELSE live \cup {r.ptr}
        /\ hist' = IF Tracing
                   THEN Append(hist, CallAlloc(bytes, r.ptr))
                   ELSE hist
        /\ UNCHANGED <<Maxwords, released, serialized, call, dump>>

Free(ptr) ==
    LET r == freealloc(Maxwords, memspace, ptr)
    IN  /\ CanCall
        /\ memspace' = r.mem
        /\ last' = [op |-> "free", bytes |-> U32(0), words |-> 0, ptr |-> ptr, res |-> r.res,
                    hdr |-> IF r.res = "Ok" THEN ptr - 1 ELSE NULL,
                    size |-> IF r.res = "Ok" THEN memspace[ptr - 1].w ELSE 0,
                    preFree |-> TotalFree(memspace)]
        /\ released' = (released \/ r.res = "Ok")
        /\ allocs' = IF r.res = "Ok" THEN << >> ELSE allocs
        /\ live' = IF r.res = "Ok" THEN live \ {ptr} ELSE live
        /\ hist' = IF Tracing
                   THEN Append(hist, CallFree(ptr))
                   ELSE hist
        /\ UNCHANGED <<Maxwords, errno, serialized, call, dump>>

Next ==
    \/ \E bytes \in BytesIn : Alloc(bytes)
    \/ \E ptr \in PtrsIn : Free(ptr)

Spec == Init /\ [][Next]_vars

\* A caller writing into the memory it was just handed: a data word of the
\* block alloc returned takes the bit pattern that reads as an Allocated header
\* of size 0.  One such word exists at a time.
DataWords ==
    IF last.op = "alloc" /\ last.res = "Ok"
    THEN {i \in 0..(Maxwords - 1) : last.ptr <= i /\ i < last.hdr + memspace[last.hdr].w}
    ELSE {}
ForgedHeaders == {[w |-> 0, alloced |-> TRUE]}
Write(i, v) ==
    /\ Maxwords <= MaxWriteCap
    /\ \A j \in 0..(Maxwords - 1) : memspace[j] \notin ForgedHeaders
    /\ i \in DataWords
    /\ memspace[i] # v
    /\ memspace' = [memspace EXCEPT ![i] = v]
    /\ last' = [NoCall EXCEPT !.op = "write"]
    /\ UNCHANGED <<Maxwords, errno, allocs, released, live, hist, serialized, call, dump>>
NextW ==
    \/ Next
    \/ \E i \in 0..(Maxwords - 1), v \in ForgedHeaders : Write(i, v)

\* The allocator with callers that also write into their blocks.
SpecW == Init /\ [][NextW]_vars

\* ------------------------------------------------- alloc, step by step
\* One invocation of findBlock_ up to its return or its recursive call:
\* at = "idle" is the return of NULL, at = "mkalloc" the return of hdr, and
\* at = "find" the recursive call with the next header and offset.
\* Mutant of findBlock_Step: the search moves on by one word less than the
\* size of the block.
findBlock_StepShort(cap, m, hdr, words_to_alloc, n) ==
    IF n >= cap - 2 THEN [at |-> "idle", hdr |-> NULL, n |-> n]
    ELSE LET total_required_size == words_to_alloc + 1
         IN  IF ~m[hdr].alloced /\ m[hdr].w >= total_required_size
             THEN [at |-> "mkalloc", hdr |-> hdr, n |-> n]
             ELSE [at |-> "find", hdr |-> hdr + m[hdr].w - 1, n |-> n + m[hdr].w - 1]

findBlock_Step(cap, m, hdr, words_to_alloc, n) ==
    IF n >= cap - 2 THEN [at |-> "idle", hdr |-> NULL, n |-> n]
    ELSE LET total_required_size == words_to_alloc + 1
         IN  IF ~m[hdr].alloced /\ m[hdr].w >= total_required_size
             THEN [at |-> "mkalloc", hdr |-> hdr, n |-> n]
             ELSE [at |-> "find", hdr |-> hdr + m[hdr].w, n |-> n + m[hdr].w]

\* The byte counts of the calls that run step by step: one for each number
\* of data words up to one more than the capacity holds.
StepBytes == {U32(4 * w) : w \in 0..Maxwords}

AllIdle == \A p \in Procs : call[p].at = "idle"
\* Mutant of MayBegin: a call starts whatever the other caller is doing.
MayBegin_Unguarded(p) == TRUE

\* Callers that serialize their calls start one only while no other runs.
MayBegin(p) == serialized => \A q \in Procs \ {p} : call[q].at = "idle"

\* Callers that do not serialize make one call each, and both start before
\* either call has returned.
CanRace == serialized \/ (allocs = << >> /\ errno = 0)

FailedAlloc(bytes, words, preFree) ==
    [op |-> "alloc", bytes |-> bytes, words |-> words, ptr |-> NULL, res |-> "OutOfMemory",
     hdr |-> NULL, size |-> 0, preFree |-> preFree]

\* alloc up to its call of findBlock: the conversion and the lazy initialization.
Begin(p, bytes) ==
    LET words == BytesToWords(bytes)
        first == memspace[0].w = 0
        toobig == first /\ words + 1 > Maxwords
    IN  /\ call[p].at = "idle"
        /\ dump.at = "idle"
        /\ MayBegin(p)
        /\ CanRace
        /\ IF toobig
           THEN /\ errno' = ErrNoMem
                /\ last' = FailedAlloc(bytes, words, TotalFree(memspace))
                /\ call' = [call EXCEPT ![p] = IdleCall]
                /\ UNCHANGED memspace
           ELSE /\ memspace' = IF first
                               THEN [memspace EXCEPT ![0] = [w |-> Bits30(Maxwords),
                                                             alloced |-> FALSE]]
                               ELSE memspace
                /\ call' = [call EXCEPT ![p] = [at |-> "find", bytes |-> bytes, words |-> words,
                                                hdr |-> 0, n |-> 0,
                                                preFree |-> TotalFree(memspace)]]
                /\ UNCHANGED <<errno, last>>
        /\ UNCHANGED <<Maxwords, allocs, released, live, hist, serialized, dump>>

\* One invocation of findBlock_; on NULL alloc sets errno and returns NULL.
FindStep(p) ==
    LET c == call[p]
        r == findBlock_Step(Maxwords, memspace, c.hdr, c.words, c.n)
    IN  /\ c.at = "find"
        /\ IF r.at = "idle"
           THEN /\ errno' = ErrNoMem
                /\ last' = FailedAlloc(c.bytes, c.words, c.preFree)
                /\ call' = [call EXCEPT ![p] = IdleCall]
           ELSE /\ call' = [call EXCEPT ![p].at = r.at, ![p].hdr = r.hdr, ![p].n = r.n]
                /\ UNCHANGED <<errno, last>>
        /\ UNCHANGED <<Maxwords, memspace, allocs, released, live, hist, serialized, dump>>

\* alloc's call of mkalloc on the block found, and its return.
Mk(p) ==
    LET c == call[p]
        r == mkalloc(memspace, c.words, c.hdr)
    IN  /\ c.at = "mkalloc"
        /\ memspace' = r.mem
        /\ last' = [op |-> "alloc", bytes |-> c.bytes, words |-> c.words, ptr |-> r.ptr,
                    res |-> "Ok", hdr |-> c.hdr, size |-> memspace[c.hdr].w,
                    preFree |-> c.preFree]
        /\ allocs' = IF ~released THEN Append(allocs, c.words) ELSE allocs
        /\ live' = live \cup {r.ptr}
        /\ call' = [call EXCEPT ![p] = IdleCall]
        /\ UNCHANGED <<Maxwords, errno, released, hist, serialized, dump>>

\* Calls of alloc run step by step by two callers; callers that serialize
\* their calls release blocks in between.
\* A read and a write of one header by two running calls is a data race; the
\* steps order such accesses statement by statement.
NextC ==
    \/ \E p \in Procs, bytes \in StepBytes : Begin(p, bytes)
    \/ \E p \in Procs : FindStep(p)
    \/ \E p \in Procs : Mk(p)
    \/ \E ptr \in PtrsIn : AllIdle /\ serialized /\ Free(ptr)

InitC ==
    /\ InitArena
    /\ Maxwords \in MinCap..MaxStepCap
    /\ serialized \in BOOLEAN

SpecC == InitC /\ [][NextC]_vars

\* A call that is running takes its next step: alloc never waits.
FairSpecC ==
    /\ SpecC
    /\ \A p \in Procs : WF_vars(FindStep(p)) /\ WF_vars(Mk(p))

\* ------------------------------------------------- the chain of headers
\* The header chain of the current arena, as the walk from offset 0 reads it.
Layout == Blocks(memspace)
Initialized == memspace[0].w # 0
RECURSIVE SumSizes(_)
SumSizes(s) == IF s = << >> THEN 0 ELSE Head(s).size + SumSizes(Tail(s))
Allocated(o, sz) == [offset |-> o, size |-> sz, alloced |-> TRUE]
FreeBlock(o, sz) == [offset |-> o, size |-> sz, alloced |-> FALSE]
\* the offsets of the chain headers of arena m
ChainOffsets(m) == {Blocks(m)[i].offset : i \in 1..Len(Blocks(m))}

\* C1: once the arena is initialized, the sizes of the headers on the chain
\* from offset 0 (next offset = offset + size) sum to exactly the capacity.
C1_ChainSumsToCapacity ==
    Initialized => SumSizes(Layout) = Maxwords

\* C1 witness: a chain of at least three blocks right after a release that
\* absorbed its successor.
C1_Witness ==
    /\ Initialized
    /\ Len(Layout) >= 3
    /\ last.op = "free" /\ last.res = "Ok"
    /\ memspace[last.hdr].w > last.size
    /\ SumSizes(Layout) = Maxwords

\* C2: once the arena is initialized, every header on the chain has
\* 1 <= size <= capacity, the chain starts at offset 0, each block lies inside
\* the arena, each next header sits exactly at offset + size (so offsets
\* strictly increase and blocks do not overlap), the chain ends exactly at the
\* capacity, and no zero-size header is on the chain.
C2_ChainWellFormed ==
    Initialized =>
        /\ Len(Layout) >= 1
        /\ Layout[1].offset = 0
        /\ \A i \in 1..Len(Layout) :
              /\ Layout[i].size >= 1
              /\ Layout[i].size <= Maxwords
              /\ Layout[i].offset + Layout[i].size <= Maxwords
              /\ i < Len(Layout) =>
                    /\ Layout[i + 1].offset = Layout[i].offset + Layout[i].size
                    /\ Layout[i + 1].offset > Layout[i].offset
        /\ Layout[Len(Layout)].offset + Layout[Len(Layout)].size = Maxwords

\* C2 witness: a chain in which a block allocated without a split (it took one
\* word more than required) is followed by another block.
C2_Witness ==
    /\ Initialized
    /\ last.op = "alloc" /\ last.res = "Ok"
    /\ last.size = last.words + 2
    /\ memspace[last.hdr].w = last.size
    /\ last.hdr + last.size < Maxwords
    /\ Len(Layout) >= 3

\* ------------------------------------------------------------ coalescing
\* The calls of main(): alloc(8), alloc(16), freealloc(ptr), freealloc(ptr2);
\* and the same calls with the two releases swapped.
MainCalls == <<CallAlloc(U32(8), 1), CallAlloc(U32(16), 4), CallFree(1), CallFree(4)>>
MainCallsSwapped == <<CallAlloc(U32(8), 1), CallAlloc(U32(16), 4), CallFree(4), CallFree(1)>>

\* A step that releases the second of two adjacent blocks A (at oa, size a) and
\* B (at ob = oa + a), both Allocated before the first of the two releases, the
\* first release being the call just before.  ReleasedLowerThenUpper: A first
\* (oa = last.hdr, ob = last'.hdr); ReleasedUpperThenLower: B first.
TwoReleases ==
    /\ last.op = "free" /\ last.res = "Ok"
    /\ last'.op = "free" /\ last'.res = "Ok"
ReleasedLowerThenUpper == TwoReleases /\ last'.hdr = last.hdr + last.size
ReleasedUpperThenLower == TwoReleases /\ last.hdr = last'.hdr + last'.size
\* After the step: one Free block at oa that spans A and B (and whatever B absorbed).
MergedAt(oa, ob, a, bspan) ==
    /\ ~memspace'[oa].alloced
    /\ memspace'[oa].w = a + bspan
    /\ oa \in ChainOffsets(memspace')
    /\ ob \notin ChainOffsets(memspace')
\* After the step: two separate adjacent Free blocks, A of size a and B.
SeparateAt(oa, ob, a, bspan) ==
    /\ ~memspace'[oa].alloced /\ memspace'[oa].w = a
    /\ ~memspace'[ob].alloced /\ memspace'[ob].w = bspan
    /\ {oa, ob} \subseteq ChainOffsets(memspace')

\* C3 (as stated): releasing two adjacent Allocated blocks A then B in either
\* order ends with one Free block at A's offset spanning both; with capacity 64,
\* after alloc(8) and alloc(16), either order of the two releases leaves a
\* single Free block of size 64 at offset 0.
C3_OrderIndependent ==
    /\ [][/\ ReleasedLowerThenUpper =>
                MergedAt(last.hdr, last'.hdr, last.size, memspace'[last'.hdr].w)
          /\ ReleasedUpperThenLower =>
                MergedAt(last'.hdr, last.hdr, last'.size, memspace[last.hdr].w)]_vars
    /\ [](Maxwords = 64 /\ hist \in {MainCalls, MainCallsSwapped} => Layout = <<FreeBlock(0, 64)>>)

\* C3 (amended): releasing B and then A ends with one Free block at A's offset
\* of size a + b (plus the Free successor B absorbed); releasing A and then B
\* leaves two separate adjacent Free blocks, A of size a and B of size b (plus
\* the Free successor it absorbed).  With capacity 64, after alloc(8) and
\* alloc(16): release ptr2 then ptr gives one Free block of 64 at offset 0;
\* release ptr then ptr2 gives Free (0, 3) and Free (3, 61).
C3_ForwardOnlyCoalescing ==
    /\ [][/\ ReleasedLowerThenUpper =>
                /\ SeparateAt(last.hdr, last'.hdr, last.size, memspace'[last'.hdr].w)
                /\ memspace'[last'.hdr].w >= last'.size
          /\ ReleasedUpperThenLower =>
                /\ MergedAt(last'.hdr, last.hdr, last'.size, memspace[last.hdr].w)
                /\ memspace[last.hdr].w >= last.size]_vars
    /\ [](Maxwords = 64 /\ hist = MainCallsSwapped => Layout = <<FreeBlock(0, 64)>>)
    /\ [](Maxwords = 64 /\ hist = MainCalls => Layout = <<FreeBlock(0, 3), FreeBlock(3, 61)>>)

\* C3 witness: at capacity 64, alloc(8), alloc(16), then ptr2 and ptr released
\* in that order, leaving one Free block of 64 words.
C3_Witness ==
    /\ Maxwords = 64
    /\ hist = MainCallsSwapped
    /\ last.op = "free" /\ last.res = "Ok" /\ last.hdr = 0 /\ last.size = 3
    /\ Layout = <<FreeBlock(0, 64)>>

\* ------------------------------------------------------- out of memory
\* The step is a call of alloc.
AllocCall == last'.op = "alloc"
\* The chain of arena m as alloc sees it at its search: a never-initialized
\* arena is one Free block of the whole capacity.
ChainSeen(m) == IF m[0].w = 0 THEN <<FreeBlock(0, Maxwords)>> ELSE Blocks(m)
\* In arena m the only Free block is the last block of the chain.
OnlyTrailingFree(m) ==
    LET c == ChainSeen(m)
    IN  /\ ~c[Len(c)].alloced
        /\ \A i \in 1..(Len(c) - 1) : c[i].alloced
Remaining(m) == ChainSeen(m)[Len(ChainSeen(m))].size

\* C4: when the only Free block is the trailing one, of size R (the fresh
\* arena included, R = capacity), a request with W + 1 = R succeeds and a
\* request with W + 1 = R + 1 fails with OutOfMemory.
C4_BoundaryExactFit ==
    [][AllocCall /\ OnlyTrailingFree(memspace) =>
          /\ last'.words + 1 = Remaining(memspace) => last'.res = "Ok"
          /\ last'.words + 1 = Remaining(memspace) + 1 => last'.res = "OutOfMemory"]_vars

\* Some Free block of arena m has at least `size` words.
HasFreeBlock(m, size) ==
    \E i \in 1..Len(Blocks(m)) : ~Blocks(m)[i].alloced /\ Blocks(m)[i].size >= size

\* C5: on an initialized arena, alloc for W data words fails with OutOfMemory
\* if and only if no Free block of size >= W + 1 is on the chain.
C5_FailsIffNoFit ==
    [][AllocCall /\ Initialized =>
          (last'.res = "OutOfMemory" <=> ~HasFreeBlock(memspace, last'.words + 1))]_vars

\* ------------------------------------------------------------ round trip
\* The step releases the pointer that the call just before, a successful
\* alloc, returned.
ReleaseOfJustAllocated ==
    /\ last.op = "alloc" /\ last.res = "Ok"
    /\ last'.op = "free" /\ last'.ptr = last.ptr

\* C6 (as stated): from any reachable state, a successful alloc followed at
\* once by the release of its pointer restores the total free space (the sum
\* of the sizes of the Free blocks) to its value before the alloc.
C6_RoundTripRestoresFree ==
    [][ReleaseOfJustAllocated => TotalFree(memspace') = last.preFree]_vars

\* C6 (amended): the round trip restores the total free space whenever the
\* arena was initialized before the alloc (its free space was then at least 1);
\* from the never-initialized arena, whose chain holds no Free block (free
\* space 0), it ends with the whole capacity free.
C6_RoundTripOnceInitialized ==
    [][ReleaseOfJustAllocated =>
          /\ last'.res = "Ok"
          /\ TotalFree(memspace') = IF last.preFree = 0 THEN Maxwords ELSE last.preFree]_vars

\* C6 witness: an alloc that split a block of an initialized arena with other
\* blocks on it, and the release of its pointer right after, at capacity 64.
C6_Witness ==
    /\ Maxwords = 64
    /\ Len(hist) = 4
    /\ hist[1].op = "alloc" /\ hist[2].op = "alloc"
    /\ hist[3].op = "alloc" /\ hist[3].ret # NULL
    /\ hist[4] = CallFree(hist[3].ret)
    /\ last.res = "Ok"
    /\ last.preFree < TotalFree(memspace)
    /\ Len(Layout) = 3

\* ----------------------------------------------------------- double free
\* C7: freealloc(NULL) changes nothing in the arena; releasing a pointer that
\* alloc returned (and that is not yet released) succeeds and leaves its block
\* Free; releasing the same pointer again right after is rejected as a double
\* free and leaves the arena as the first release left it.
C7_NullAndDoubleFree ==
    [][/\ (last'.op = "free" /\ last'.ptr = NULL) =>
              last'.res = "Noop" /\ memspace' = memspace
       /\ (last'.op = "free" /\ last'.ptr \in live) =>
              /\ last'.res = "Ok"
              /\ ~memspace'[last'.ptr - 1].alloced
              /\ last'.ptr - 1 \in ChainOffsets(memspace')
       /\ (last.op = "free" /\ last.res = "Ok" /\ last'.op = "free" /\ last'.ptr = last.ptr) =>
              last'.res = "DoubleFree" /\ memspace' = memspace]_vars

\* C7 witness: at capacity 64, alloc(16), then its pointer released twice; the
\* second release was rejected as a double free.
C7_Witness ==
    /\ Maxwords = 64
    /\ hist = <<CallAlloc(U32(16), 1), CallFree(1), CallFree(1)>>
    /\ last.res = "DoubleFree"
    /\ Layout = <<FreeBlock(0, 64)>>

\* ------------------------------------------------------- bytes to words
\* bytes + 3 does not fit 32 bits
Overflows(bytes) == bytes.hi = Half - 1 /\ bytes.lo + 3 >= Half

\* C8: alloc computes W = ceil(bytes / 4) for every 32-bit byte count; a byte
\* count whose conversion overflows is rejected, and no successful alloc holds
\* fewer than ceil(bytes / 4) data words.
C8_CeilingOrRejected ==
    last.op = "alloc" =>
        /\ last.words = CeilDiv4(last.bytes)
        /\ Overflows(last.bytes) => last.res # "Ok"
        /\ last.res = "Ok" => memspace[last.hdr].w - 1 >= CeilDiv4(last.bytes)

\* ------------------------------------------------------ contiguous layout
\* The layout the claim describes for successive allocations of the data-word
\* counts seq into the space from offset off on: each block has size W + 1
\* while at least 2 words would remain behind it, else it takes all that is
\* left; one Free block holds what remains.
RECURSIVE ContiguousLayout(_, _)
ContiguousLayout(seq, off) ==
    IF seq = << >>
    THEN IF off < Maxwords THEN <<FreeBlock(off, Maxwords - off)>> ELSE << >>
    ELSE LET required == Head(seq) + 1
             size == IF (Maxwords - off) - required >= 2 THEN required ELSE Maxwords - off
         IN  <<Allocated(off, size)>> \o ContiguousLayout(Tail(seq), off + size)

\* C9: from a fresh arena, successful allocations with no release in between
\* are laid out contiguously in address order, each of size W + 1 (W the
\* data-word count alloc computed) while the remainder stays >= 2, followed by
\* one trailing Free remainder; at capacity 64, alloc(8) then alloc(16) gives
\* (0, 3, Allocated), (3, 5, Allocated), (8, 56, Free).
C9_ContiguousFromFresh ==
    /\ (Initialized /\ ~released) =>
          /\ Layout = ContiguousLayout(allocs, 0)
          /\ Len(allocs) >= 1
    /\ (Maxwords = 64 /\ hist = <<CallAlloc(U32(8), 1), CallAlloc(U32(16), 4)>>) =>
          Layout = <<Allocated(0, 3), Allocated(3, 5), FreeBlock(8, 56)>>

\* C9 witness: at capacity 64, right after alloc(8) and alloc(16).
C9_Witness ==
    /\ Maxwords = 64
    /\ hist = <<CallAlloc(U32(8), 1), CallAlloc(U32(16), 4)>>
    /\ allocs = <<2, 4>>
    /\ ~released
    /\ Layout = <<Allocated(0, 3), Allocated(3, 5), FreeBlock(8, 56)>>

\* -------------------------------------------------------- split threshold
\* The arena alloc searches: the arena before the call, with the first header
\* set to one Free block of the whole capacity if it was never initialized.
Searched(m) == IF m[0].w = 0 THEN [m EXCEPT ![0] = [w |-> Maxwords, alloced |-> FALSE]] ELSE m

\* C10: a successful alloc of W data words (required = W + 1) that selected the
\* Free block at H of size S: if S - required >= 2 it leaves an Allocated block
\* of size required at H and a new Free block of size S - required at
\* H + required; if S = required or S = required + 1 nothing is split and the
\* Allocated block keeps size S; no other word changes, and the block returned
\* has size W + 1 or W + 2.
C10_SplitThreshold ==
    [][(AllocCall /\ last'.res = "Ok") =>
          LET H == last'.hdr
              S == last'.size
              required == last'.words + 1
              before == Searched(memspace)
          IN  /\ S = before[H].w
              /\ ~before[H].alloced
              /\ S >= required
              /\ S - required >= 2 =>
                    memspace' = [before EXCEPT
                                    ![H] = [w |-> required, alloced |-> TRUE],
                                    ![H + required] = [w |-> S - required, alloced |-> FALSE]]
              /\ S - required < 2 =>
                    memspace' = [before EXCEPT ![H] = [w |-> S, alloced |-> TRUE]]
              /\ memspace'[H].w \in {last'.words + 1, last'.words + 2}
              /\ last'.ptr = H + 1]_vars

\* C10 witness: at capacity 64, alloc(16), alloc(8), release of the first block
\* and alloc(8) again: the Free block of 5 words at offset 0 is split into an
\* Allocated block of 3 and a Free remainder of exactly 2 words.
C10_Witness ==
    /\ Maxwords = 64
    /\ last.op = "alloc" /\ last.res = "Ok"
    /\ last.hdr = 0 /\ last.size = 5 /\ last.words = 2
    /\ Layout = <<Allocated(0, 3), FreeBlock(3, 2), Allocated(5, 3), FreeBlock(8, 56)>>

\* -------------------------------------------------------------- first fit
\* C11: whenever alloc succeeds, the block it took is, in the arena it
\* searched, a Free block on the chain of size >= W + 1, and no Free block of
\* size >= W + 1 lies at a lower offset on the chain.
C11_FirstFit ==
    [][(AllocCall /\ last'.res = "Ok") =>
          LET c == ChainSeen(memspace)
              required == last'.words + 1
          IN  /\ \E i \in 1..Len(c) :
                    /\ c[i].offset = last'.hdr
                    /\ ~c[i].alloced
                    /\ c[i].size >= required
              /\ \A i \in 1..Len(c) :
                    (~c[i].alloced /\ c[i].size >= required) => c[i].offset >= last'.hdr]_vars

\* C11 witness: a successful alloc that took a Free block while a Free block
\* further up the chain, untouched by the call, was large enough as well.
C11_Witness ==
    /\ last.op = "alloc" /\ last.res = "Ok"
    /\ \E i \in 1..Len(Layout) :
          /\ Layout[i].offset >= last.hdr + last.size
          /\ ~Layout[i].alloced
          /\ Layout[i].size >= last.words + 1

\* ---------------------------------------------------- release validation
\* C12: the checks of a release of a non-NULL pointer are ordered: a header
\* (pointer - 1) outside [0, capacity) is rejected as an invalid pointer;
\* otherwise a header that is not Allocated as a double free; otherwise a
\* header of size 0 as corruption; and a rejected release changes no word of
\* the arena.  (Checked with callers that write into their blocks, so that
\* Allocated-looking words of size 0 exist.)
C12_OrderedValidation ==
    [][(last'.op = "free" /\ last'.ptr # NULL) =>
          LET h == last'.ptr - 1
          IN  /\ last'.res =
                    IF h < 0 \/ h >= Maxwords THEN "InvalidPointer"
                    ELSE IF ~memspace[h].alloced THEN "DoubleFree"
                    ELSE IF memspace[h].w = 0 THEN "CorruptionDetected"
                    ELSE "Ok"
              /\ last'.res # "Ok" => memspace' = memspace]_vars

\* C12 witness: a release rejected for a zero-size header that reads Allocated.
C12_Witness ==
    /\ last.op = "free" /\ last.res = "CorruptionDetected"
    /\ memspace[last.ptr - 1] = [w |-> 0, alloced |-> TRUE]

\* C13: an alloc that fails with OutOfMemory leaves every word of the arena as
\* it was; on a never-initialized arena a request with W + 1 > Maxwords fails
\* and leaves the header at offset 0 reading size 0, and a request with
\* W + 1 <= Maxwords initializes the arena and succeeds, whatever calls failed
\* before it.
C13_FailureLeavesArena ==
    [][AllocCall =>
          /\ last'.res = "OutOfMemory" => memspace' = memspace
          /\ (~Initialized /\ last'.words + 1 > Maxwords) =>
                (last'.res = "OutOfMemory" /\ memspace'[0].w = 0)
          /\ (~Initialized /\ last'.words + 1 <= Maxwords) =>
                (last'.res = "Ok" /\ memspace'[0].w # 0)]_vars
\* An alloc has just initialized the arena and succeeded after an earlier
\* first call had failed.
C13_Witness ==
    /\ errno = ErrNoMem
    /\ last.op = "alloc" /\ last.res = "Ok" /\ last.preFree = 0
    /\ Initialized
    /\ live = {last.ptr}

\* C14: a successful alloc of W data words that located the block at H changes
\* no word of the arena other than the header at H and, only when it splits,
\* the word at H + W + 1, which then becomes a chain header; every other block
\* of the chain is on the chain afterwards with the same offset, size and
\* state, and every pointer returned earlier and not yet released still has an
\* unchanged Allocated header on the chain.
C14_AllocFrame ==
    [][(AllocCall /\ last'.res = "Ok") =>
          LET H == last'.hdr
              N == last'.hdr + last'.words + 1
              c == ChainSeen(memspace)
              c2 == Blocks(memspace')
          IN  /\ \A i \in 0..Maxwords : i \notin {H, N} => memspace'[i] = memspace[i]
              /\ memspace'[N] # memspace[N] =>
                    /\ last'.size - (last'.words + 1) >= 2
                    /\ N \in ChainOffsets(memspace')
              /\ \A i \in 1..Len(c) :
                    c[i].offset # H => \E j \in 1..Len(c2) : c2[j] = c[i]
              /\ \A q \in live :
                    /\ memspace'[q - 1] = memspace[q - 1]
                    /\ memspace'[q - 1].alloced
                    /\ (q - 1) \in ChainOffsets(memspace')]_vars
\* An alloc has just split a block that lies below a live block.
C14_Witness ==
    /\ last.op = "alloc" /\ last.res = "Ok"
    /\ last.size - (last.words + 1) >= 2
    /\ \E q \in live : q > last.hdr + last.size /\ memspace[q - 1].alloced

AdjacentFree(c, i) == ~c[i].alloced /\ ~c[i + 1].alloced

\* C16: a successful release changes no word below the header of the released
\* block; when the chain predecessor A of the released block B is Free, A is
\* after the release the same Free block and B is the Free chain block that
\* follows it.  Two adjacent Free blocks A, B stay that way in every step that
\* is not an alloc locating A or B: afterwards B is the same chain block and
\* the block of the chain before it is Free (no call merges them while A is
\* Free).
C16_NoBackwardCoalescing ==
    [][LET c == Blocks(memspace)
           c2 == Blocks(memspace')
       IN  /\ (last'.op = "free" /\ last'.res = "Ok") =>
                 /\ \A i \in 0..(last'.hdr - 1) : memspace'[i] = memspace[i]
                 /\ \A i \in 1..(Len(c) - 1) :
                       (c[i + 1].offset = last'.hdr /\ ~c[i].alloced) =>
                          \E j \in 1..(Len(c2) - 1) :
                             /\ c2[j] = c[i]
                             /\ c2[j + 1].offset = last'.hdr
                             /\ ~c2[j + 1].alloced
           /\ \A i \in 1..(Len(c) - 1) :
                 AdjacentFree(c, i) =>
                    \/ /\ AllocCall /\ last'.res = "Ok"
                       /\ last'.hdr \in {c[i].offset, c[i + 1].offset}
                    \/ \E j \in 1..(Len(c2) - 1) :
                          c2[j + 1] = c[i + 1] /\ ~c2[j].alloced]_vars
\* main()'s calls have run: the release of the upper block found the lower one
\* Free, and the two are separate Free blocks.
C16_Witness ==
    /\ Maxwords = 64
    /\ hist = MainCalls
    /\ last.op = "free" /\ last.res = "Ok" /\ last.hdr = 3
    /\ Layout = <<FreeBlock(0, 3), FreeBlock(3, 61)>>

\* The pointer q of a block of arena m gives its caller the words from q up
\* to, not including, DataEnd(m, q).
DataEnd(m, q) == (q - 1) + m[q - 1].w
\* The live pointers are the data addresses of the Allocated blocks of the
\* chain; the words of every one of them lie inside [0, Maxwords), and of two
\* of them the lower one ends before the header of the upper one.
LiveRegionsDisjoint ==
    LET c == Layout
    IN  /\ live = {c[i].offset + 1 : i \in {j \in 1..Len(c) : c[j].alloced}}
        /\ \A q \in live : q >= 1 /\ q <= DataEnd(memspace, q) /\ DataEnd(memspace, q) <= Maxwords
        /\ \A q1, q2 \in live : q1 < q2 => DataEnd(memspace, q1) <= q2 - 1

\* C17: in every reachable state the data regions of the Allocated blocks are
\* pairwise disjoint and inside [0, Maxwords), and they hold no header of an
\* Allocated block; the block a successful alloc of W data words has just
\* returned is live, has size - 1 >= W, and its words came out of the Free
\* space (the total Free space went down by the size of the block).
C17_LiveRegionsDisjoint ==
    /\ LiveRegionsDisjoint
    /\ (last.op = "alloc" /\ last.res = "Ok") =>
          /\ last.ptr \in live
          /\ memspace[last.hdr].w - 1 >= last.words
          /\ TotalFree(memspace) + memspace[last.hdr].w =
                IF last.preFree = 0 THEN Maxwords ELSE last.preFree
\* After a release an alloc has reused space: two live blocks with data words
\* exist, the newer one below the older one.
C17_Witness ==
    /\ released
    /\ last.op = "alloc" /\ last.res = "Ok" /\ last.words >= 1
    /\ \E q \in live : q > last.ptr /\ DataEnd(memspace, q) > q

\* C18: the pointer a successful alloc has just returned is one word past
\* the header of the block it allocated and is not the offset of a header on
\* the chain, whatever the byte count of the request, 0 included.
C18_PointerIsNoHeader ==
    (last.op = "alloc" /\ last.res = "Ok") =>
        /\ last.ptr = last.hdr + 1
        /\ last.ptr \notin ChainOffsets(memspace)

\* The data addresses of the Allocated blocks on the chain of arena m.
AllocatedData(m) ==
    {Blocks(m)[i].offset + 1 : i \in {j \in 1..Len(Blocks(m)) : Blocks(m)[j].alloced}}

\* C19: with callers that do not write into the arena, a release is carried
\* out only for the data address of a block that is Allocated on the chain;
\* the release of any other non-null pointer is rejected and leaves every word
\* of the arena as it was.
C19_OnlyAllocatedFreed ==
    [][(last'.op = "free" /\ last'.ptr # NULL) =>
          IF last'.ptr \in AllocatedData(memspace)
          THEN last'.res = "Ok" /\ last'.ptr \in live
          ELSE /\ last'.res \in {"InvalidPointer", "DoubleFree", "CorruptionDetected"}
               /\ memspace' = memspace]_vars
\* A release has just been rejected for a pointer to a stale header: a word
\* that still holds the size of a block released earlier, absorbed since, and
\* now covered by an Allocated block of the chain.
C19_Witness ==
    /\ last.op = "free" /\ last.res = "DoubleFree"
    /\ last.ptr >= 1 /\ last.ptr <= Maxwords
    /\ memspace[last.ptr - 1].w > 0
    /\ (last.ptr - 1) \notin ChainOffsets(memspace)
    /\ \E i \in 1..Len(Layout) :
          /\ Layout[i].alloced
          /\ Layout[i].offset < last.ptr - 1
          /\ last.ptr - 1 < Layout[i].offset + Layout[i].size

\* C20: while the header at offset 0 reads size 0 every word of the arena is
\* zero, no pointer is live, and a release changes nothing; the first alloc
\* with W + 1 <= Maxwords searches one Free block of size Maxwords at offset 0
\* and leaves the header at 0 with a size other than 0; from then on no call
\* makes the header at 0 read size 0 again, and an alloc locates a block with
\* the size the chain gave it before the call and changes the header of no
\* live block.
C20_InitializedOnce ==
    [][/\ ~Initialized =>
             /\ \A i \in 0..Maxwords : memspace[i] = ZeroHeader
             /\ live = {}
             /\ last'.op = "free" => memspace' = memspace
             /\ (AllocCall /\ last'.words + 1 <= Maxwords) =>
                   /\ last'.res = "Ok" /\ last'.hdr = 0 /\ last'.size = Maxwords
                   /\ memspace'[0].w # 0
       /\ Initialized =>
             /\ memspace'[0].w # 0
             /\ (AllocCall /\ last'.res = "Ok") =>
                   /\ last'.size = memspace[last'.hdr].w
                   /\ live \subseteq live'
                   /\ \A q \in live : memspace'[q - 1] = memspace[q - 1]]_vars
\* After releases, an alloc has taken the block at offset 0 again while a
\* block above it is live.
C20_Witness ==
    /\ released
    /\ last.op = "alloc" /\ last.res = "Ok" /\ last.hdr = 0
    /\ \E q \in live : q > last.ptr /\ memspace[q - 1].alloced
    /\ SumSizes(Layout) = Maxwords

\* --------------------------------------- print_memory_layout, step by step
\* One iteration of the while loop, entered with d.offset < cap: the block at
\* the offset is printed, then the loop ends at a zero size or at the end of
\* the arena.
\* Mutant of print_memory_layout_Step: a zero-size header is stepped over by
\* one word and the loop goes on.
print_memory_layout_StepOverZero(cap, m, d) ==
    LET e == [offset |-> d.offset, size |-> m[d.offset].w, alloced |-> m[d.offset].alloced]
        offset == d.offset + (IF m[d.offset].w = 0 THEN 1 ELSE m[d.offset].w)
    IN  [at |-> IF offset >= cap THEN "done" ELSE "loop",
         offset |-> offset, out |-> Append(d.out, e)]

print_memory_layout_Step(cap, m, d) ==
    LET e == [offset |-> d.offset, size |-> m[d.offset].w, alloced |-> m[d.offset].alloced]
        offset == d.offset + m[d.offset].w
    IN  IF m[d.offset].w = 0
        THEN [at |-> "done", offset |-> d.offset, out |-> Append(d.out, e)]
        ELSE [at |-> IF offset >= cap THEN "done" ELSE "loop",
              offset |-> offset, out |-> Append(d.out, e)]

\* The call, between two calls of the allocator: offset = 0, nothing printed.
DumpStart ==
    /\ dump.at = "idle"
    /\ AllIdle
    /\ dump' = [at |-> IF 0 < Maxwords THEN "loop" ELSE "done", offset |-> 0, out |-> << >>]
    /\ UNCHANGED <<Maxwords, memspace, errno, last, allocs, released, live, hist,
                   serialized, call>>

DumpStep ==
    /\ dump.at = "loop"
    /\ dump' = print_memory_layout_Step(Maxwords, memspace, dump)
    /\ UNCHANGED <<Maxwords, memspace, errno, last, allocs, released, live, hist,
                   serialized, call>>

\* The return to the caller.
DumpReturn ==
    /\ dump.at = "done"
    /\ dump' = IdleDump
    /\ UNCHANGED <<Maxwords, memspace, errno, last, allocs, released, live, hist,
                   serialized, call>>

NextD ==
    \/ dump.at = "idle" /\ Next
    \/ DumpStart
    \/ DumpStep
    \/ DumpReturn

SpecD == Init /\ [][NextD]_vars

\* A running print_memory_layout takes its next iteration.
FairSpecD == SpecD /\ WF_vars(DumpStep)

\* Caller p's alloc is in its search, and the callers serialize their calls.
SearchAt(p) == serialized /\ call[p].at = "find"

\* C21: in every state reached with serialized calls, the search of an alloc
\* stands at a header of the chain or at the end of the arena, never beyond
\* Maxwords; each step that continues the search moves the offset forward by
\* the size of the block just inspected, which is at least 1, so no block is
\* inspected twice and the steps number at most the blocks; and every search
\* ends, with a block or with NULL.
C21_SearchTerminates ==
    /\ [](\A p \in Procs :
             SearchAt(p) =>
                 /\ call[p].hdr = call[p].n
                 /\ call[p].n <= Maxwords
                 /\ call[p].n \in ChainOffsets(memspace) \cup {Maxwords})
    /\ [][\A p \in Procs :
             (SearchAt(p) /\ call'[p].at = "find") =>
                 /\ memspace[call[p].n].w >= 1
                 /\ call'[p].n = call[p].n + memspace[call[p].n].w]_vars
    /\ \A p \in Procs : SearchAt(p) ~> (call[p].at # "find")
\* A search has gone past two blocks of the chain.
C21_Witness ==
    \E p \in Procs :
        /\ SearchAt(p)
        /\ Cardinality({o \in ChainOffsets(memspace) : o < call[p].n}) >= 2

\* What a finished print_memory_layout has printed: the blocks of the arena
\* as they are, from offset 0, each at the offset where the one before ends and
\* below Maxwords; the last one has size 0 or ends at Maxwords or beyond.
Reported(out) ==
    /\ Len(out) >= 1
    /\ out[1].offset = 0
    /\ \A i \in 1..Len(out) :
          /\ out[i].size = memspace[out[i].offset].w
          /\ out[i].alloced = memspace[out[i].offset].alloced
    /\ \A i \in 1..(Len(out) - 1) :
          /\ out[i].size >= 1
          /\ out[i + 1].offset = out[i].offset + out[i].size
          /\ out[i + 1].offset > out[i].offset
          /\ out[i + 1].offset < Maxwords
    /\ \/ out[Len(out)].size = 0
       \/ out[Len(out)].offset + out[Len(out)].size >= Maxwords
    /\ ~Initialized => out = <<FreeBlock(0, 0)>>

\* C22: no step of print_memory_layout changes a word of the arena; when it
\* has finished it has printed the blocks of the chain from offset 0 in
\* strictly increasing offset order, stopping when the offset reached Maxwords
\* or right after a zero-size header (exactly one zero-size entry on a
\* never-initialized arena); and every call that has started finishes.
C22_DumpReadsAndTerminates ==
    /\ [][dump' # dump => memspace' = memspace]_vars
    /\ [](dump.at = "done" => Reported(dump.out))
    /\ (dump.at = "loop") ~> (dump.at = "done")
\* A print_memory_layout call has finished on a chain of at least three
\* blocks, Allocated and Free ones among them.
C22_Witness ==
    /\ dump.at = "done"
    /\ Len(dump.out) >= 3
    /\ \E i, j \in 1..Len(dump.out) : dump.out[i].alloced /\ ~dump.out[j].alloced

\* The step is the return of caller p's alloc with a block.
Returns(p) == call[p].at = "mkalloc" /\ call'[p].at = "idle"

\* C23: when the callers serialize their calls, the chain sums to the
\* capacity, the live blocks are the Allocated blocks of the chain and share
\* no word, as many pointers are live as allocs have succeeded while nothing
\* was released, and no alloc returns a pointer that is live.  (The witness is
\* the other half: two calls that overlap return the same pointer.)
C23_SerializedCallsAreSafe ==
    /\ [](serialized =>
             /\ Initialized => SumSizes(Layout) = Maxwords
             /\ LiveRegionsDisjoint
             /\ ~released => Len(allocs) = Cardinality(live))
    /\ [][\A p \in Procs : (serialized /\ Returns(p)) => last'.ptr \notin live]_vars
\* Two callers that did not serialize have each made one alloc call, the calls
\* overlapped, and both returned the same pointer.
C23_Witness ==
    /\ ~serialized
    /\ AllIdle
    /\ Len(allocs) = 2
    /\ Cardinality(live) = 1
    /\ last.op = "alloc" /\ last.res = "Ok" /\ live = {last.ptr}

====
